---- MODULE Spec2Model ----
(***************************************************************************)
(* evict: resolve a TCP port to the process that owns it, then terminate   *)
(* that process.  The model covers the Port Resolver                       *)
(* (src/src/port_service.rs) and the Process Controller                    *)
(* (src/src/process_service.rs) running against an operating system whose  *)
(* connection table and process set change on their own between the        *)
(* program's system calls.                                                  *)
(***************************************************************************)
EXTENDS Integers, Sequences, FiniteSets, TLC

(* ------------------------------ bounds -------------------------------- *)

\* Largest number of rows the OS connection table holds.
MaxRows == 2

\* Longest executable path (UTF-16 code units) drawn for the name extraction.
MaxPathLen == 3

(* ------------------------- program constants --------------------------- *)

\* windows::Win32::Foundation::ERROR_INSUFFICIENT_BUFFER.0
ERROR_INSUFFICIENT_BUFFER == 122

\* The success code the second table query is compared with.
NO_ERROR == 0

\* vec![0u16; 1024]: capacity of the path buffer, in UTF-16 code units.
PATH_BUFFER_LEN == 1024

\* TerminateProcess(handle, 1)
EXIT_CODE == 1

\* The two access rights the program asks OpenProcess for.
PROCESS_QUERY_INFORMATION == "PROCESS_QUERY_INFORMATION"
PROCESS_TERMINATE == "PROCESS_TERMINATE"

\* The path separator the file name is split on.
BACKSLASH == 92

(* ----------------------- the operating system -------------------------- *)

\* Other Win32 error codes the OS hands back.
ERROR_ACCESS_DENIED == 5
ERROR_GEN_FAILURE == 31
ERROR_INVALID_PARAMETER == 87

\* Size in bytes of the table header (dwNumEntries) and of one
\* MIB_TCPROW_OWNER_PID row (six DWORDs).
HEADER_BYTES == 4
ROW_BYTES == 24

\* Processes that may be alive, the pid of the idle pseudo-process, which
\* owns the TIME_WAIT rows of the table, and the pid the tests use as one
\* that does not exist.
ProcPids == {1, 2}
IDLE_PID == 0
NoSuchPid == 9999999
Pids == ProcPids \cup {IDLE_PID, NoSuchPid}

\* dwLocalPort values of the rows: the port in network byte order in the
\* low 16 bits; the upper 16 bits are not guaranteed to be zero.
\*   256   = 0x00000100 : port 1
\*   1     = 0x00000001 : port 256
\*   65792 = 0x00010100 : port 1, with a set bit above the low 16
LocalPortWords == {256, 1, 65792}

\* The ports the resolver is asked about.
Ports == {1, 256}

Rows == [dwLocalPort : LocalPortWords, dwOwningPid : ProcPids \cup {IDLE_PID}]

RECURSIVE SeqsUpTo(_, _)
SeqsUpTo(S, n) ==
    IF n = 0 THEN {<< >>}
    ELSE LET shorter == SeqsUpTo(S, n - 1)
         IN  shorter \cup {Append(s, x) : s \in {t \in shorter : Len(t) = n - 1}, x \in S}

Tables == SeqsUpTo(Rows, MaxRows)

\* Bytes GetExtendedTcpTable needs to return table t.
RequiredSize(t) == HEADER_BYTES + ROW_BYTES * Len(t)

\* Codes a failing table query returns for reasons other than the buffer.
FirstQueryFaults == {NO_ERROR, ERROR_INVALID_PARAMETER}
SecondQueryFaults == {ERROR_INVALID_PARAMETER}

VARIABLES
    table,      \* OS: the TCP connection table (owner-pid kind), in table order
    running,    \* OS: pids of the processes that are running
    dying,      \* OS: pids terminated or exited whose teardown is not finished
    handles,    \* OS: the process handles this program holds open
    pc,         \* program: where the current call stands
    call,       \* program: the function called and its argument
    size,       \* find_process_by_port: `size`
    buffer,     \* find_process_by_port: `buffer`, decoded as the rows it holds
    scanned,    \* find_process_by_port: rows read by the scan
    handle,     \* get_process_name / kill_process: `handle`
    inner,      \* the result held while the handle is closed
    result,     \* the value the last call returned
    syscalls,   \* the OS calls the current call has made, in order
    prev,       \* kill_process: the outcome of the call before, when it was the same call
    mpc,        \* main: where the run stands ("off" when main is not running)
    argv,       \* main: the command-line arguments after the program name
    validPort,  \* main: `port`, the validated port
    binding,    \* main: `binding`, what find_process_by_port returned
    calls,      \* main: the calls of the core made by this run, in order
    stdio,      \* main: what the run printed, in order
    exitCode    \* main: the code the run exited with (-1 while it has not)

mainVars == << mpc, argv, validPort, binding, calls, stdio, exitCode >>

vars == << table, running, dying, handles, pc, call, size, buffer, scanned,
           handle, inner, result, syscalls, prev, mainVars >>

osVars == << table, running, dying >>
fpVars == << size, buffer, scanned >>

NONE == [kind |-> "none"]
NoPrev == [op |-> "none", arg |-> 0, kind |-> "none"]
NoHandle == [id |-> 0, pid |-> 0, access |-> {}]
NoBinding == [pid |-> 0, port |-> 0]

(* --------------------------- result values ----------------------------- *)

Ok(v) == [kind |-> "Ok", value |-> v]
Err(msg, reason) == [kind |-> "Err", msg |-> msg, reason |-> reason]

PortBinding(pid, port) == [pid |-> pid, port |-> port]
Some(v) == [some |-> TRUE, value |-> v]
None == [some |-> FALSE]

IsOk(r) == r.kind = "Ok"
IsErr(r) == r.kind = "Err"

(* ------------------------ find_process_by_port ------------------------- *)

\* `x as u16`
AsU16(x) == x % 65536

\* u16::from_be on the little-endian targets Windows runs on: swap the bytes.
FromBe16(x) == (x % 256) * 256 + (x \div 256)

\* Faulty variant: success is accepted from the size query as well.
SizeQueryAccepted_OrSuccess(code) ==
    code \in {ERROR_INSUFFICIENT_BUFFER, NO_ERROR}

\* The first query is accepted only when it reports the buffer too small.
SizeQueryAccepted(code) == code = ERROR_INSUFFICIENT_BUFFER

\* Faulty variant: the fill query's buffer-too-small code is let through.
FillQueryAccepted_OrTooSmall(code) ==
    code \in {NO_ERROR, ERROR_INSUFFICIENT_BUFFER}

\* The second query is accepted only when it reports success.
FillQueryAccepted(code) == code = NO_ERROR

\* Faulty variant: the port is compared without the byte-order conversion.
local_port_NoSwap(entry) == AsU16(entry.dwLocalPort)

\* let local_port = u16::from_be((*entry).dwLocalPort as u16);
local_port(entry) == FromBe16(AsU16(entry.dwLocalPort))

\* for i in 0..num_entries { ... }: the scan from row i on; gives the value
\* returned and the number of rows read.
RECURSIVE ScanFrom(_, _, _)
ScanFrom(rows, i, port) ==
    IF i > Len(rows)
    THEN [value |-> None, read |-> Len(rows)]
    ELSE IF local_port(rows[i]) = port
         THEN [value |-> Some(PortBinding(rows[i].dwOwningPid, port)), read |-> i]
         ELSE ScanFrom(rows, i + 1, port)

Scan(rows, port) == ScanFrom(rows, 1, port)

TableQuery(bufLen, ret, sizeOut) ==
    [fn |-> "GetExtendedTcpTable", bufLen |-> bufLen, ret |-> ret, sizeOut |-> sizeOut]

Summary == [op |-> call.op, arg |-> call.arg,
            kind |-> IF result.kind = "Err" THEN result.msg ELSE result.kind]

Begin(op, arg) ==
    /\ pc = "idle"
    /\ call' = [op |-> op, arg |-> arg]
    /\ prev' = IF op = "kill_process" /\ call = [op |-> op, arg |-> arg]
               THEN Summary ELSE NoPrev
    /\ result' = NONE
    /\ syscalls' = << >>
    /\ size' = 0
    /\ buffer' = << >>
    /\ scanned' = 0
    /\ handle' = NoHandle
    /\ inner' = NONE
    /\ UNCHANGED << osVars, handles >>

CallFind ==
    \E port \in Ports :
        /\ Begin("find_process_by_port", port)
        /\ pc' = "fp_size"
        /\ UNCHANGED mainVars

\* Lines 16-34: the size query with no buffer, the check of its code, and the
\* allocation of the buffer.
FpSizeQuery ==
    /\ pc = "fp_size"
    /\ \E code \in FirstQueryFaults \cup {ERROR_INSUFFICIENT_BUFFER} :
         LET sizeOut == IF code = ERROR_INSUFFICIENT_BUFFER
                        THEN RequiredSize(table) ELSE size
         IN  /\ syscalls' = Append(syscalls, TableQuery(0, code, sizeOut))
             /\ size' = sizeOut
             /\ IF SizeQueryAccepted(code)
                THEN /\ pc' = "fp_fill"
                     /\ result' = result
                ELSE /\ pc' = "idle"
                     /\ result' = Err("Failed to query TCP table size", code)
    /\ UNCHANGED << osVars, handles, call, buffer, scanned, handle, inner, prev, mainVars >>

\* Lines 35-68: the fill query into a buffer of `size` bytes, the check of its
\* code, and the scan of the rows.
FpFillQuery ==
    /\ pc = "fp_fill"
    /\ \E code \in SecondQueryFaults \cup
                   {IF RequiredSize(table) > size
                    THEN ERROR_INSUFFICIENT_BUFFER ELSE NO_ERROR} :
         LET sizeOut == IF code = ERROR_INVALID_PARAMETER
                        THEN size ELSE RequiredSize(table)
             filled  == IF code = NO_ERROR THEN table ELSE << >>
             found   == Scan(filled, call.arg)
         IN  /\ syscalls' = Append(syscalls, TableQuery(size, code, sizeOut))
             /\ size' = sizeOut
             /\ buffer' = filled
             /\ IF FillQueryAccepted(code)
                THEN /\ scanned' = found.read
                     /\ result' = Ok(found.value)
                ELSE /\ scanned' = 0
                     /\ result' = Err("Failed to get TCP table", code)
    /\ pc' = "idle"
    /\ UNCHANGED << osVars, handles, call, handle, inner, prev, mainVars >>


(* ----------------------- OS: process handles --------------------------- *)

\* UTF-16 code units of the executable paths: '\', 'a', a high surrogate
\* (0xD800) and a low surrogate (0xDC00).
PathUnits == {BACKSLASH, 97, 55296, 56320}

\* Every path of at most MaxPathLen code units.
Paths == SeqsUpTo(PathUnits, MaxPathLen)

\* A path that does not fit the buffer.
LongPath == [i \in 1..(PATH_BUFFER_LEN + 1) |-> 97]

\* The paths the OS reports for the processes of the system model: empty,
\* "a", "a\", "a\a", "\" and one too long for the buffer.
OsPaths == {<< >>, <<97>>, <<97, BACKSLASH>>, <<97, BACKSLASH, 97>>,
            <<BACKSLASH>>, LongPath}

\* OpenProcess(access, false, pid), access a set of rights: the process object
\* exists until its teardown is finished; the OS may refuse the access asked
\* for.
OpenProcessOutcomes(pid) ==
    IF pid \in running \cup dying
    THEN {[ok |-> TRUE, code |-> NO_ERROR], [ok |-> FALSE, code |-> ERROR_ACCESS_DENIED]}
    ELSE {[ok |-> FALSE, code |-> ERROR_INVALID_PARAMETER]}

\* The handle a successful OpenProcess returns: the lowest free handle value.
NewHandle(access, pid) ==
    [id |-> CHOOSE i \in 1..(Cardinality(handles) + 1) :
                /\ \A h \in handles : h.id # i
                /\ \A j \in 1..(i - 1) : \E h \in handles : h.id = j,
     pid |-> pid, access |-> access]

\* QueryFullProcessImageNameW(h, PROCESS_NAME_WIN32, buf, &size) with a buffer
\* of cap code units, for a process whose image is at `path`: the call needs
\* query access on the handle and room for the path and its terminator; on
\* success buf holds the path and size its length.
QueryImageName(h, path, cap) ==
    IF PROCESS_QUERY_INFORMATION \notin h.access
    THEN [ok |-> FALSE, code |-> ERROR_ACCESS_DENIED]
    ELSE IF Len(path) + 1 > cap
         THEN [ok |-> FALSE, code |-> ERROR_INSUFFICIENT_BUFFER]
         ELSE [ok |-> TRUE, size |-> Len(path),
               buf |-> [i \in 1..cap |-> IF i <= Len(path) THEN path[i] ELSE 0]]

QueryFailed == [ok |-> FALSE, code |-> ERROR_GEN_FAILURE]

\* TerminateProcess(h, code): needs terminate access on the handle; a process
\* that has already exited is refused; the OS may refuse a running one.
TerminateOutcomes(h) ==
    IF PROCESS_TERMINATE \in h.access /\ h.pid \in running
    THEN {[ok |-> TRUE, code |-> NO_ERROR], [ok |-> FALSE, code |-> ERROR_ACCESS_DENIED]}
    ELSE {[ok |-> FALSE, code |-> ERROR_ACCESS_DENIED]}

(* -------------------------- get_process_name --------------------------- *)

\* String::from_utf16_lossy: a surrogate pair becomes one code point, an
\* unpaired surrogate becomes U+FFFD, any other unit is its own code point.
IsHighSurrogate(u) == u >= 55296 /\ u <= 56319
IsLowSurrogate(u) == u >= 56320 /\ u <= 57343
REPLACEMENT_CHARACTER == 65533

RECURSIVE from_utf16_lossy(_)
from_utf16_lossy(units) ==
    IF units = << >> THEN << >>
    ELSE LET u == Head(units)
         IN  IF IsHighSurrogate(u) /\ Len(units) >= 2 /\ IsLowSurrogate(units[2])
             THEN << 65536 + (u - 55296) * 1024 + (units[2] - 56320) >>
                  \o from_utf16_lossy(Tail(Tail(units)))
             ELSE IF IsHighSurrogate(u) \/ IsLowSurrogate(u)
                  THEN << REPLACEMENT_CHARACTER >> \o from_utf16_lossy(Tail(units))
                  ELSE << u >> \o from_utf16_lossy(Tail(units))

\* str::split(sep): the pieces between the separators, in order; always at
\* least one piece.
RECURSIVE split(_, _)
split(s, sep) ==
    IF \A i \in 1..Len(s) : s[i] # sep
    THEN << s >>
    ELSE LET k == CHOOSE i \in 1..Len(s) :
                      s[i] = sep /\ \A j \in 1..(i - 1) : s[j] # sep
         IN  << SubSeq(s, 1, k - 1) >> \o split(SubSeq(s, k + 1, Len(s)), sep)

\* Faulty variant: next() in place of next_back(), the first piece.
filename_FirstPiece(full_path) == split(full_path, BACKSLASH)[1]

\* full_path.split('\\').next_back().unwrap_or(&full_path)
filename(full_path) ==
    LET pieces == split(full_path, BACKSLASH)
    IN  IF Len(pieces) = 0 THEN full_path ELSE pieces[Len(pieces)]

\* The access right get_process_name opens its handle with.
NameAccess == {PROCESS_QUERY_INFORMATION}

\* get_process_name_from_handle, given what the OS query returned.
NameFromQuery(q) ==
    IF ~q.ok
    THEN Err("Failed to query process name", q.code)
    ELSE LET full_path == from_utf16_lossy(SubSeq(q.buf, 1, q.size))
             name == filename(full_path)
         IN  IF name = << >>
             THEN Err("Process name is empty", 0)
             ELSE Ok(name)

OpenCall(access, pid, ok) ==
    [fn |-> "OpenProcess", access |-> access, pid |-> pid, ok |-> ok]
QueryCall(h, ok) == [fn |-> "QueryFullProcessImageNameW", h |-> h, ok |-> ok]
TerminateCall(h, code, ok) ==
    [fn |-> "TerminateProcess", h |-> h, exitCode |-> code, ok |-> ok]
CloseCall(h) == [fn |-> "CloseHandle", h |-> h]

CallGetName ==
    \E pid \in Pids :
        /\ Begin("get_process_name", pid)
        /\ pc' = "gpn_open"
        /\ UNCHANGED mainVars

\* Lines 16-17: OpenProcess with query access; `?` returns the error.
GpnOpen ==
    /\ pc = "gpn_open"
    /\ \E o \in OpenProcessOutcomes(call.arg) :
         /\ syscalls' = Append(syscalls, OpenCall(NameAccess, call.arg, o.ok))
         /\ IF o.ok
            THEN LET h == NewHandle(NameAccess, call.arg)
                 IN  /\ handle' = h
                     /\ handles' = handles \cup {h}
                     /\ pc' = "gpn_query"
                     /\ result' = result
            ELSE /\ pc' = "idle"
                 /\ result' = Err("Failed to open process", o.code)
                 /\ UNCHANGED << handle, handles >>
    /\ UNCHANGED << osVars, call, fpVars, inner, prev, mainVars >>

\* Line 20: get_process_name_from_handle(handle).
GpnQuery ==
    /\ pc = "gpn_query"
    /\ \E q \in {QueryFailed} \cup
                {QueryImageName(handle, path, PATH_BUFFER_LEN) : path \in OsPaths} :
         /\ syscalls' = Append(syscalls, QueryCall(handle, q.ok))
         /\ inner' = NameFromQuery(q)
    /\ pc' = "gpn_close"
    /\ UNCHANGED << osVars, handles, call, fpVars, handle, result, prev, mainVars >>

\* Faulty variant: the helper's error is returned before the handle is closed.
GpnClose_LeakOnError ==
    /\ pc = "gpn_close"
    /\ IF IsErr(inner)
       THEN UNCHANGED << syscalls, handles >>
       ELSE /\ syscalls' = Append(syscalls, CloseCall(handle))
            /\ handles' = handles \ {handle}
    /\ result' = inner
    /\ pc' = "idle"
    /\ UNCHANGED << osVars, call, fpVars, handle, inner, prev, mainVars >>

\* Lines 21-22: CloseHandle(handle), then the helper's result is returned.
GpnClose ==
    /\ pc = "gpn_close"
    /\ syscalls' = Append(syscalls, CloseCall(handle))
    /\ handles' = handles \ {handle}
    /\ result' = inner
    /\ pc' = "idle"
    /\ UNCHANGED << osVars, call, fpVars, handle, inner, prev, mainVars >>

\* get_process_name_from_handle on its own, for a process whose image is at
\* the path held in call.arg.
HelperHandle == [id |-> 1, pid |-> 1, access |-> NameAccess]

NameHelper ==
    /\ pc = "name_in"
    /\ LET q == QueryImageName(handle, call.arg, PATH_BUFFER_LEN)
       IN  /\ syscalls' = Append(syscalls, QueryCall(handle, q.ok))
           /\ result' = NameFromQuery(q)
    /\ pc' = "name_out"
    /\ UNCHANGED << osVars, handles, call, fpVars, handle, inner, prev, mainVars >>

(* ----------------------------- kill_process ---------------------------- *)

\* Faulty variant: kill_process asks for query access as well.
KillAccess_Both == {PROCESS_TERMINATE, PROCESS_QUERY_INFORMATION}

\* The access right kill_process opens its handle with.
KillAccess == {PROCESS_TERMINATE}

CallKill ==
    \E pid \in Pids :
        /\ Begin("kill_process", pid)
        /\ pc' = "kp_open"
        /\ UNCHANGED mainVars

\* Faulty variant: the error of OpenProcess is not returned and the function
\* goes on with an invalid handle.
KpOpen_Unchecked ==
    /\ pc = "kp_open"
    /\ \E o \in OpenProcessOutcomes(call.arg) :
         /\ syscalls' = Append(syscalls, OpenCall({PROCESS_TERMINATE}, call.arg, o.ok))
         /\ IF o.ok
            THEN LET h == NewHandle({PROCESS_TERMINATE}, call.arg)
                 IN  /\ handle' = h
                     /\ handles' = handles \cup {h}
            ELSE UNCHANGED << handle, handles >>
         /\ pc' = "kp_terminate"
         /\ result' = result
    /\ UNCHANGED << osVars, call, fpVars, inner, prev, mainVars >>

\* Lines 64-65: OpenProcess with terminate access; `?` returns the error.
KpOpen ==
    /\ pc = "kp_open"
    /\ \E o \in OpenProcessOutcomes(call.arg) :
         /\ syscalls' = Append(syscalls, OpenCall(KillAccess, call.arg, o.ok))
         /\ IF o.ok
            THEN LET h == NewHandle(KillAccess, call.arg)
                 IN  /\ handle' = h
                     /\ handles' = handles \cup {h}
                     /\ pc' = "kp_terminate"
                     /\ result' = result
            ELSE /\ pc' = "idle"
                 /\ result' = Err("Failed to open process for termination", o.code)
                 /\ UNCHANGED << handle, handles >>
    /\ UNCHANGED << osVars, call, fpVars, inner, prev, mainVars >>

\* Faulty variant: a rejected request is issued a second time.
KpTerminate_Retry ==
    /\ pc = "kp_terminate"
    /\ \E t \in TerminateOutcomes(handle) :
         IF t.ok
         THEN /\ syscalls' = Append(syscalls, TerminateCall(handle, EXIT_CODE, TRUE))
              /\ running' = running \ {handle.pid}
              /\ dying' = dying \cup {handle.pid}
              /\ inner' = Ok(<< >>)
         ELSE /\ syscalls' = syscalls \o << TerminateCall(handle, EXIT_CODE, FALSE),
                                           TerminateCall(handle, EXIT_CODE, FALSE) >>
              /\ UNCHANGED << running, dying >>
              /\ inner' = Err("Failed to terminate process", t.code)
    /\ pc' = "kp_close"
    /\ UNCHANGED << table, handles, call, fpVars, handle, result, prev, mainVars >>

\* Lines 68-69: TerminateProcess(handle, 1); an accepted request ends the
\* process, whose teardown the OS finishes later.
KpTerminate ==
    /\ pc = "kp_terminate"
    /\ \E t \in TerminateOutcomes(handle) :
         /\ syscalls' = Append(syscalls, TerminateCall(handle, EXIT_CODE, t.ok))
         /\ IF t.ok
            THEN /\ running' = running \ {handle.pid}
                 /\ dying' = dying \cup {handle.pid}
                 /\ inner' = Ok(<< >>)
            ELSE /\ UNCHANGED << running, dying >>
                 /\ inner' = Err("Failed to terminate process", t.code)
    /\ pc' = "kp_close"
    /\ UNCHANGED << table, handles, call, fpVars, handle, result, prev, mainVars >>

\* Lines 72-74: CloseHandle(handle), then the termination's result is returned.
KpClose ==
    /\ pc = "kp_close"
    /\ syscalls' = Append(syscalls, CloseCall(handle))
    /\ handles' = handles \ {handle}
    /\ result' = inner
    /\ pc' = "idle"
    /\ UNCHANGED << osVars, call, fpVars, handle, inner, prev, mainVars >>

(* ------------------------- validation and cli -------------------------- *)

\* Text is a sequence of one-character strings.
Digits == {"0", "1", "2", "3", "4", "5", "6", "7", "8", "9"}

DigitValue(c) ==
    CASE c = "0" -> 0 [] c = "1" -> 1 [] c = "2" -> 2 [] c = "3" -> 3
      [] c = "4" -> 4 [] c = "5" -> 5 [] c = "6" -> 6 [] c = "7" -> 7
      [] c = "8" -> 8 [] c = "9" -> 9

DigitChar(d) ==
    CASE d = 0 -> "0" [] d = 1 -> "1" [] d = 2 -> "2" [] d = 3 -> "3"
      [] d = 4 -> "4" [] d = 5 -> "5" [] d = 6 -> "6" [] d = 7 -> "7"
      [] d = 8 -> "8" [] d = 9 -> "9"

\* The largest u16.
U16_MAX == 65535

\* The digit loop of str::parse::<u16>: acc * 10 + digit, checked; -1 stands
\* for the error (a character that is no digit, or overflow).
RECURSIVE ParseDigits(_, _)
ParseDigits(s, acc) ==
    IF s = << >> THEN acc
    ELSE IF Head(s) \notin Digits THEN -1
         ELSE LET next == acc * 10 + DigitValue(Head(s))
              IN  IF next > U16_MAX THEN -1 ELSE ParseDigits(Tail(s), next)

\* str::parse::<u16>(): the empty string and a lone sign are errors, one
\* leading '+' is accepted, '-' is no digit of an unsigned number.
parse_u16(s) ==
    IF s = << >> \/ s = << "+" >> \/ s = << "-" >>
    THEN Err("ParseIntError", 0)
    ELSE LET digits == IF Head(s) = "+" THEN Tail(s) ELSE s
             n == ParseDigits(digits, 0)
         IN  IF n < 0 THEN Err("ParseIntError", 0) ELSE Ok(n)

\* u16::to_string(): the decimal digits, no sign, no leading zero.
RECURSIVE to_string(_)
to_string(n) ==
    IF n < 10 THEN << DigitChar(n) >>
    ELSE Append(to_string(n \div 10), DigitChar(n % 10))

\* Faulty variant: the range check on zero is missing.
validate_port_NoZeroCheck(port_str) ==
    LET parsed == parse_u16(port_str)
    IN  IF IsErr(parsed) THEN Err("Port must be a valid number", 0) ELSE parsed

\* validation::validate_port
validate_port(port_str) ==
    LET parsed == parse_u16(port_str)
    IN  IF IsErr(parsed)
        THEN Err("Port must be a valid number", 0)
        ELSE IF parsed.value = 0
             THEN Err("Port must be between 1 and 65535", 0)
             ELSE Ok(parsed.value)

HelpFlags == { << "-", "h" >>, << "-", "-", "h", "e", "l", "p" >> }

\* cli::parse_args on the arguments after the program name: "help" when the
\* first is a help flag, else the parsed port or the error.
parse_args(args) ==
    IF Len(args) >= 1 /\ args[1] \in HelpFlags
    THEN [kind |-> "help"]
    ELSE IF Len(args) < 1
         THEN Err("Usage", 0)
         ELSE LET parsed == parse_u16(args[1])
              IN  IF IsErr(parsed) THEN Err("Invalid port", 0)
                  ELSE Ok([port |-> parsed.value])

\* The command lines of the runs: none, the help flags, and port texts.
ArgTexts ==
    { << >>,
      << "a", "b", "c" >>,
      << "1", "a" >>,
      << "-", "1" >>,
      << "0" >>,
      << "6", "5", "5", "3", "6" >>,
      << "1" >>,
      << "+", "1" >>,
      << "2", "5", "6" >>,
      << "6", "5", "5", "3", "5" >> }

CommandLines == { << >> } \cup { << t >> : t \in ArgTexts \cup HelpFlags }

(* ------------------------------- main ---------------------------------- *)

\* What the run prints.
Line(stream, text, values) == [stream |-> stream, text |-> text, values |-> values]

\* cli::display_error(&err)
display_error(err) == Line("stderr", "Error", << err.msg, err.reason >>)

Hint == Line("stderr", "Hint: Try running as administrator", << >>)

\* cli::display_process_info(pid, name)
display_process_info(pid, name) == Line("stdout", "Found process using port", << pid, name >>)

\* cli::display_success(port)
display_success(p) == Line("stdout", "Port is now free", << p >>)

\* process::exit(code) after printing `lines`.
Exit(code, lines) ==
    /\ mpc' = "exited"
    /\ exitCode' = code
    /\ stdio' = stdio \o lines

\* A call of the core by main.
MainCall(op, arg) ==
    /\ Begin(op, arg)
    /\ calls' = Append(calls, [op |-> op, arg |-> arg])

\* Faulty variant: a port the table does not list is reported as a failure.
ExitNotInUse_Failure == 1 - 0

\* The exit code of the "Port is not in use" arm.
ExitNotInUse == 0

\* Lines 9-28: parse_args, validate_port, and the call of
\* find_process_by_port.
MainStart ==
    /\ mpc = "start"
    /\ pc = "idle"
    /\ LET parsed == parse_args(argv)
       IN  IF parsed.kind = "help"
           THEN /\ Exit(0, << Line("stdout", "help", << >>) >>)
                /\ UNCHANGED << validPort, binding, calls >>
                /\ UNCHANGED << osVars, handles, pc, call, fpVars, handle, inner,
                                result, syscalls, prev >>
           ELSE IF IsErr(parsed)
           THEN /\ Exit(1, << display_error(parsed) >>)
                /\ UNCHANGED << validPort, binding, calls >>
                /\ UNCHANGED << osVars, handles, pc, call, fpVars, handle, inner,
                                result, syscalls, prev >>
           ELSE LET valid == validate_port(to_string(parsed.value.port))
                IN  IF IsErr(valid)
                    THEN /\ Exit(1, << display_error(valid) >>)
                         /\ UNCHANGED << validPort, binding, calls >>
                         /\ UNCHANGED << osVars, handles, pc, call, fpVars, handle,
                                         inner, result, syscalls, prev >>
                    ELSE /\ validPort' = valid.value
                         /\ MainCall("find_process_by_port", valid.value)
                         /\ pc' = "fp_size"
                         /\ mpc' = "resolve"
                         /\ UNCHANGED << binding, stdio, exitCode >>
    /\ UNCHANGED argv

\* Lines 28-42: the match on what find_process_by_port returned, and the call
\* of get_process_name.
MainResolved ==
    /\ mpc = "resolve"
    /\ pc = "idle"
    /\ IF IsOk(result) /\ result.value.some
       THEN /\ binding' = result.value.value
            /\ MainCall("get_process_name", result.value.value.pid)
            /\ pc' = "gpn_open"
            /\ mpc' = "name"
            /\ UNCHANGED << stdio, exitCode >>
       ELSE /\ IF IsOk(result)
               THEN Exit(ExitNotInUse,
                         << Line("stdout", "Port is not in use", << validPort >>) >>)
               ELSE Exit(1, << display_error(result), Hint >>)
            /\ UNCHANGED << binding, calls >>
            /\ UNCHANGED << osVars, handles, pc, call, fpVars, handle, inner,
                            result, syscalls, prev >>
    /\ UNCHANGED << argv, validPort >>

\* Faulty variant: the process is terminated also when its name could not be
\* looked up.
MainNamed_KillAnyway ==
    /\ mpc = "name"
    /\ pc = "idle"
    /\ MainCall("kill_process", binding.pid)
    /\ pc' = "kp_open"
    /\ mpc' = "kill"
    /\ stdio' = IF IsOk(result)
                THEN Append(stdio, display_process_info(binding.pid, result.value))
                ELSE stdio
    /\ UNCHANGED << argv, validPort, binding, exitCode >>

\* Lines 42-55: the match on what get_process_name returned,
\* display_process_info, and the call of kill_process.
MainNamed ==
    /\ mpc = "name"
    /\ pc = "idle"
    /\ IF IsOk(result)
       THEN /\ stdio' = Append(stdio, display_process_info(binding.pid, result.value))
            /\ MainCall("kill_process", binding.pid)
            /\ pc' = "kp_open"
            /\ mpc' = "kill"
            /\ UNCHANGED exitCode
       ELSE /\ Exit(1, << display_error(result), Hint >>)
            /\ UNCHANGED calls
            /\ UNCHANGED << osVars, handles, pc, call, fpVars, handle, inner,
                            result, syscalls, prev >>
    /\ UNCHANGED << argv, validPort, binding >>

\* Lines 55-65: the match on what kill_process returned.
MainKilled ==
    /\ mpc = "kill"
    /\ pc = "idle"
    /\ IF IsOk(result)
       THEN Exit(0, << display_success(validPort) >>)
       ELSE Exit(1, << display_error(result), Hint >>)
    /\ UNCHANGED << argv, validPort, binding, calls >>
    /\ UNCHANGED << osVars, handles, pc, call, fpVars, handle, inner,
                    result, syscalls, prev >>

\* After a run that terminated the owner of the port and confirmed it, the
\* port is resolved once more, as the end-to-end scenario does after the run.
ResolveAgain ==
    /\ mpc = "exited"
    /\ pc = "idle"
    /\ exitCode = 0
    /\ display_success(validPort) \in {stdio[i] : i \in 1..Len(stdio)}
    /\ Begin("find_process_by_port", validPort)
    /\ pc' = "fp_size"
    /\ mpc' = "again"
    /\ UNCHANGED << argv, validPort, binding, calls, stdio, exitCode >>

(* --------------------------- the environment --------------------------- *)

\* The OS state changes at any time, but the program sees it only through its
\* system calls; a change made between two calls of the program's functions is
\* seen exactly as the same change made after the next call began, so the
\* environment moves only while a call is in progress.
InCall == pc # "idle"

\* The table is read by find_process_by_port alone and the process set by
\* get_process_name and kill_process alone, so in the same way a change of
\* the table is made while the former runs and an exit while the latter run.
InTableCall == pc \in {"fp_size", "fp_fill"}
InProcessCall == pc \in {"gpn_open", "gpn_query", "gpn_close",
                         "kp_open", "kp_terminate", "kp_close"}

\* A connection appears: the OS appends a row.
TableGrow ==
    /\ InTableCall
    /\ Len(table) < MaxRows
    /\ \E row \in Rows : table' = Append(table, row)
    /\ UNCHANGED << running, dying, handles, pc, call, fpVars, handle, inner,
                    result, syscalls, prev, mainVars >>

\* A connection goes away: the OS drops a row.
TableShrink ==
    /\ InTableCall
    /\ \E i \in 1..Len(table) :
         table' = SubSeq(table, 1, i - 1) \o SubSeq(table, i + 1, Len(table))
    /\ UNCHANGED << running, dying, handles, pc, call, fpVars, handle, inner,
                    result, syscalls, prev, mainVars >>

\* A process exits on its own.
ProcessExit ==
    /\ InProcessCall
    /\ \E pid \in running :
         /\ running' = running \ {pid}
         /\ dying' = dying \cup {pid}
    /\ UNCHANGED << table, handles, pc, call, fpVars, handle, inner, result,
                    syscalls, prev, mainVars >>

\* The OS finishes the teardown of an ended process: its sockets are closed
\* and its rows leave the table.
Teardown ==
    /\ InCall
    /\ \E pid \in dying :
         /\ dying' = dying \ {pid}
         /\ table' = SelectSeq(table, LAMBDA row : row.dwOwningPid # pid)
    /\ UNCHANGED << running, handles, pc, call, fpVars, handle, inner, result,
                    syscalls, prev, mainVars >>

Init ==
    /\ table \in Tables
    /\ running \in SUBSET ProcPids
    /\ dying = {}
    /\ handles = {}
    /\ pc = "idle"
    /\ call = [op |-> "none", arg |-> 0]
    /\ size = 0
    /\ buffer = << >>
    /\ scanned = 0
    /\ handle = NoHandle
    /\ inner = NONE
    /\ result = NONE
    /\ syscalls = << >>
    /\ prev = NoPrev
    /\ mpc = "off"
    /\ argv = << >>
    /\ validPort = 0
    /\ binding = NoBinding
    /\ calls = << >>
    /\ stdio = << >>
    /\ exitCode = -1

Next ==
    \/ CallFind
    \/ FpSizeQuery
    \/ FpFillQuery
    \/ CallGetName
    \/ GpnOpen
    \/ GpnQuery
    \/ GpnClose
    \/ CallKill
    \/ KpOpen
    \/ KpTerminate
    \/ KpClose
    \/ TableGrow
    \/ TableShrink
    \/ ProcessExit
    \/ Teardown

Spec == Init /\ [][Next]_vars

\* The name extraction alone, over every path of at most MaxPathLen units.
InitName ==
    /\ table = << >>
    /\ running = {1}
    /\ dying = {}
    /\ handles = {HelperHandle}
    /\ pc = "name_in"
    /\ call \in [op : {"get_process_name_from_handle"}, arg : Paths]
    /\ size = 0
    /\ buffer = << >>
    /\ scanned = 0
    /\ handle = HelperHandle
    /\ inner = NONE
    /\ result = NONE
    /\ syscalls = << >>
    /\ prev = NoPrev
    /\ mpc = "off"
    /\ argv = << >>
    /\ validPort = 0
    /\ binding = NoBinding
    /\ calls = << >>
    /\ stdio = << >>
    /\ exitCode = -1

NextName == NameHelper

SpecName == InitName /\ [][NextName]_vars

\* A run of the program: main, the functions it calls, and the environment.
InitMain ==
    /\ table \in Tables
    /\ running \in SUBSET ProcPids
    /\ dying = {}
    /\ handles = {}
    /\ pc = "idle"
    /\ call = [op |-> "none", arg |-> 0]
    /\ size = 0
    /\ buffer = << >>
    /\ scanned = 0
    /\ handle = NoHandle
    /\ inner = NONE
    /\ result = NONE
    /\ syscalls = << >>
    /\ prev = NoPrev
    /\ mpc = "start"
    /\ argv \in CommandLines
    /\ validPort = 0
    /\ binding = NoBinding
    /\ calls = << >>
    /\ stdio = << >>
    /\ exitCode = -1

NextMain ==
    \/ MainStart
    \/ MainResolved
    \/ MainNamed
    \/ MainKilled
    \/ ResolveAgain
    \/ FpSizeQuery
    \/ FpFillQuery
    \/ GpnOpen
    \/ GpnQuery
    \/ GpnClose
    \/ KpOpen
    \/ KpTerminate
    \/ KpClose
    \/ TableGrow
    \/ TableShrink
    \/ ProcessExit
    \/ Teardown

SpecMain == InitMain /\ [][NextMain]_vars

(* ============================ properties =============================== *)

\* The call named op has returned.
Returned(op) == pc = "idle" /\ call.op = op /\ result # NONE

InFind == call.op = "find_process_by_port"
InName == call.op = "get_process_name"
InKill == call.op = "kill_process"

\* The entries of the system-call log made by the OS function fn.
CallsOf(fn) == {i \in 1..Len(syscalls) : syscalls[i].fn = fn}

Min(S) == CHOOSE x \in S : \A y \in S : x <= y
Max(S) == CHOOSE x \in S : \A y \in S : x >= y

\* htons on a little-endian host: the port as the table stores it.
NetworkOrder(port) == (port % 256) * 256 + (port \div 256)

\* Row `row` is a row of local port `port`: the low 16 bits of its
\* dwLocalPort hold the port in network byte order.
RowHasPort(row, port) == row.dwLocalPort % 65536 = NetworkOrder(port)

MatchingRows(t, port) == {i \in 1..Len(t) : RowHasPort(t[i], port)}

\* Both table queries gave the code the program expects of them.
BothQueriesSucceeded ==
    /\ Len(syscalls) = 2
    /\ syscalls[1].ret = ERROR_INSUFFICIENT_BUFFER
    /\ syscalls[2].ret = NO_ERROR

\* C1: when both table queries succeed, find_process_by_port(p) returns
\* Ok(Some(b)) exactly when some row of the table the OS returned has local
\* port p (low 16 bits of dwLocalPort, network to host order); then b.port = p
\* and b.pid is the owning pid of the first such row in table order.  It
\* returns Ok(None) exactly when no row matches.  (The fill query and the
\* return are one step, so at the return `table` is the table that query
\* read.)
C1_FirstMatchingRow ==
    (Returned("find_process_by_port") /\ BothQueriesSucceeded) =>
        LET p == call.arg
            m == MatchingRows(table, p)
        IN  /\ IsOk(result)
            /\ result.value.some <=> m # {}
            /\ m # {} => result.value =
                   Some([pid |-> table[Min(m)].dwOwningPid, port |-> p])
            /\ m = {} => result.value = None

\* C1 witness: two rows of the port asked for with different owners, the
\* first with bits set above the low 16; the first row's owner is returned.
C1_Witness ==
    /\ Returned("find_process_by_port")
    /\ BothQueriesSucceeded
    /\ call.arg = 1
    /\ Len(table) = 2
    /\ table[1].dwLocalPort = 65792
    /\ table[2].dwLocalPort = 256
    /\ table[1].dwOwningPid = 2
    /\ table[2].dwOwningPid = 1
    /\ result = Ok(Some([pid |-> 2, port |-> 1]))

\* C2: whenever find_process_by_port returns Ok(Some(binding)), binding.pid
\* is greater than zero.
C2_PidPositive ==
    (Returned("find_process_by_port") /\ IsOk(result) /\ result.value.some) =>
        result.value.value.pid > 0

\* Every code the table queries returned is one the OS gives for a table it
\* can report: buffer too small for the size query, and success or buffer
\* too small for the fill query.
QueriesHealthy ==
    /\ Len(syscalls) >= 1 => syscalls[1].ret = ERROR_INSUFFICIENT_BUFFER
    /\ Len(syscalls) >= 2 => syscalls[2].ret \in {NO_ERROR, ERROR_INSUFFICIENT_BUFFER}

\* C3: find_process_by_port(p) returns Ok(_) and never Err, also when the
\* table changes size between the size query and the fill query.
C3_AlwaysOk ==
    (Returned("find_process_by_port") /\ QueriesHealthy) => IsOk(result)

\* C4: the size query is accepted only with the buffer-too-small code; with
\* any other code, success included, the function returns Err carrying that
\* code, the fill query is never issued and no row is read.
C4_SizeQueryMustSayTooSmall ==
    InFind =>
        /\ Len(syscalls) >= 2 => syscalls[1].ret = ERROR_INSUFFICIENT_BUFFER
        /\ (Len(syscalls) >= 1 /\ syscalls[1].ret # ERROR_INSUFFICIENT_BUFFER) =>
               /\ pc = "idle"
               /\ result = Err("Failed to query TCP table size", syscalls[1].ret)
               /\ Len(syscalls) = 1
               /\ scanned = 0
               /\ buffer = << >>

\* C4 witness: the size query reported success and the call returned Err
\* with code 0.
C4_Witness ==
    /\ Returned("find_process_by_port")
    /\ syscalls[1].ret = NO_ERROR
    /\ Len(table) > 0
    /\ result = Err("Failed to query TCP table size", 0)

\* C5: the fill query is made with a buffer of exactly the size the size
\* query reported; any code but success from it, buffer too small included,
\* gives Err with that code; at most two table queries are issued per call.
C5_FillQueryOnce ==
    InFind =>
        /\ Len(syscalls) <= 2
        /\ \A i \in 1..Len(syscalls) : syscalls[i].fn = "GetExtendedTcpTable"
        /\ Len(syscalls) >= 1 => syscalls[1].bufLen = 0
        /\ Len(syscalls) = 2 =>
               /\ syscalls[2].bufLen = syscalls[1].sizeOut
               /\ pc = "idle"
               /\ syscalls[2].ret # NO_ERROR =>
                      /\ result = Err("Failed to get TCP table", syscalls[2].ret)
                      /\ scanned = 0

\* C5 witness: the table grew after the size query; the fill query reported
\* the buffer too small and the call returned Err with code 122.
C5_Witness ==
    /\ Returned("find_process_by_port")
    /\ Len(syscalls) = 2
    /\ syscalls[2].ret = ERROR_INSUFFICIENT_BUFFER
    /\ syscalls[2].bufLen < RequiredSize(table)
    /\ result = Err("Failed to get TCP table", 122)

SuccessfulOpens == {i \in CallsOf("OpenProcess") : syscalls[i].ok}
Closes == CallsOf("CloseHandle")

OpenFailedMsgs == {"Failed to open process", "Failed to open process for termination"}

\* C6: every handle get_process_name or kill_process opens is closed exactly
\* once before the function returns, on every path; no handle stays open
\* after either returns.
C6_HandleClosedOnce ==
    /\ pc = "idle" => handles = {}
    /\ (InName \/ InKill) =>
        /\ Cardinality(Closes) <= Cardinality(SuccessfulOpens)
        /\ Cardinality(SuccessfulOpens) <= 1
        /\ (pc # "idle" /\ SuccessfulOpens # {}) => handles = {handle}
        /\ pc = "idle" =>
               /\ Cardinality(Closes) = Cardinality(SuccessfulOpens)
               /\ \A c \in Closes : c = Len(syscalls) /\ syscalls[c].h = handle

\* C6 witness: get_process_name returned the empty-name error, and its handle
\* was opened and closed.
C6_Witness ==
    /\ Returned("get_process_name")
    /\ result = Err("Process name is empty", 0)
    /\ Cardinality(SuccessfulOpens) = 1
    /\ Cardinality(Closes) = 1
    /\ handles = {}

C7_State ==
    /\ ((InName \/ InKill) /\ Len(syscalls) >= 1 /\ ~syscalls[1].ok) =>
           /\ pc = "idle"
           /\ IsErr(result)
           /\ result.msg \in OpenFailedMsgs
           /\ Len(syscalls) = 1
           /\ handle = NoHandle
           /\ handles = {}
    /\ ((Returned("get_process_name") \/ Returned("kill_process"))
            /\ call.arg = NoSuchPid) =>
           /\ IsErr(result)
           /\ result.msg \in OpenFailedMsgs
           /\ prev.op = "kill_process" => prev.kind = result.msg

C7_Step ==
    (pc \in {"gpn_open", "kp_open"} /\ pc' = "idle") =>
        UNCHANGED << table, running, dying, handles >>

\* C7: when opening the handle fails, get_process_name and kill_process
\* return Err with no partial effect: no handle exists, no name query, no
\* termination request and no close is issued, and the running processes are
\* unchanged.  For a pid that does not exist both return Err, and
\* kill_process repeated on it gives the same kind of error.
C7_OpenFailureHasNoEffect == []C7_State /\ [][C7_Step]_vars

\* C7 witness: kill_process returned for the second time in a row on the pid
\* that does not exist.
C7_Witness ==
    /\ Returned("kill_process")
    /\ call.arg = NoSuchPid
    /\ prev.op = "kill_process"
    /\ prev.arg = NoSuchPid
    /\ syscalls = << OpenCall({PROCESS_TERMINATE}, NoSuchPid, FALSE) >>

\* C8: each operation opens its own handle with only the access right it
\* needs: get_process_name's handle has query access alone and is never used
\* to terminate, kill_process's has terminate access alone and is never used
\* to query; at most one handle is open at any moment, and every handle an
\* operation uses is the one that operation opened.
C8_OwnHandleLeastAccess ==
    /\ Cardinality(handles) <= 1
    /\ \A h \in handles :
        /\ pc # "idle"
        /\ h = handle
        /\ h.pid = call.arg
        /\ \/ InName /\ h.access = {PROCESS_QUERY_INFORMATION}
           \/ InKill /\ h.access = {PROCESS_TERMINATE}
    /\ (InName \/ InKill) =>
        /\ \A i \in CallsOf("OpenProcess") :
            /\ i = 1
            /\ syscalls[i].pid = call.arg
            /\ syscalls[i].access = IF InName THEN {PROCESS_QUERY_INFORMATION}
                                    ELSE {PROCESS_TERMINATE}
        /\ \A i \in CallsOf("QueryFullProcessImageNameW") :
            /\ InName
            /\ syscalls[1].ok
            /\ syscalls[i].h = handle
            /\ syscalls[i].h.access = syscalls[1].access
        /\ \A i \in CallsOf("TerminateProcess") :
            /\ InKill
            /\ syscalls[1].ok
            /\ syscalls[i].h = handle
            /\ syscalls[i].h.access = syscalls[1].access
        /\ \A i \in Closes : syscalls[1].ok /\ syscalls[i].h = handle

\* C8 witness: kill_process holds its terminate-only handle after the
\* termination request was accepted.
C8_Witness ==
    /\ InKill
    /\ pc = "kp_close"
    /\ handles = {handle}
    /\ handle.access = {PROCESS_TERMINATE}
    /\ inner = Ok(<< >>)

\* The text after the last separator of s; all of s when it has none.
AfterLastSeparator(s) ==
    LET seps == {i \in 1..Len(s) : s[i] = BACKSLASH}
        k == IF seps = {} THEN 0 ELSE Max(seps)
    IN  SubSeq(s, k + 1, Len(s))

NoSurrogate(s) == \A i \in 1..Len(s) : ~IsHighSurrogate(s[i]) /\ ~IsLowSurrogate(s[i])

\* C9: for every path the OS returns, the name returned on success is exactly
\* the text after the last path separator: it is not empty and holds no
\* separator (never the full path); when that final component is empty the
\* call returns Err, not Ok("").
C9_NameIsLastComponent ==
    pc = "name_out" =>
        LET last == AfterLastSeparator(call.arg)
        IN  IF last = << >>
            THEN result = Err("Process name is empty", 0)
            ELSE /\ IsOk(result)
                 /\ result.value = from_utf16_lossy(last)
                 /\ NoSurrogate(last) => result.value = last
                 /\ result.value # << >>
                 /\ \A i \in 1..Len(result.value) : result.value[i] # BACKSLASH
                 /\ Len(result.value) <= Len(last)

\* C9 witness: the path "\a" followed by an unpaired low surrogate gives the
\* name "a" followed by U+FFFD.
C9_Witness ==
    /\ pc = "name_out"
    /\ call.arg = << BACKSLASH, 97, 56320 >>
    /\ result = Ok(<< 97, REPLACEMENT_CHARACTER >>)

C10_State ==
    InKill =>
        /\ Cardinality(CallsOf("TerminateProcess")) <= 1
        /\ (pc = "idle" /\ Len(syscalls) >= 1 /\ syscalls[1].ok) =>
               /\ Len(syscalls) = 3
               /\ syscalls[2].fn = "TerminateProcess"
               /\ syscalls[2].h = handle
               /\ handle.pid = call.arg
               /\ syscalls[2].exitCode = 1
               /\ IsOk(result) <=> syscalls[2].ok
               /\ ~syscalls[2].ok =>
                      IsErr(result) /\ result.msg = "Failed to terminate process"

C10_Step ==
    (pc = "kp_terminate" /\ pc' # pc) =>
        IF inner'.kind = "Ok"
        THEN /\ call.arg \in running
             /\ running' = running \ {call.arg}
        ELSE UNCHANGED << table, running, dying >>

\* C10 as stated: when the termination request is rejected the target
\* process is left running.
C10_RejectedLeavesRunning ==
    [][(pc = "kp_terminate" /\ pc' # pc /\ inner'.kind = "Err")
           => call.arg \in running']_vars

\* C10, amended: after a successful open kill_process issues exactly one
\* termination request, with exit code 1, on the handle it opened; it returns
\* Ok(()) exactly when the OS accepted the request and Err when the OS
\* rejected it, with no second attempt; a rejected request changes nothing:
\* the target is as it was before the call, running or already exited.
C10_OneTerminationRequest == []C10_State /\ [][C10_Step]_vars

\* C10 witness: the OS rejected the request for a running process and
\* kill_process returned Err with the process still running.
C10_Witness ==
    /\ Returned("kill_process")
    /\ Len(syscalls) = 3
    /\ ~syscalls[2].ok
    /\ IsErr(result)
    /\ call.arg \in running

(* ------------------------- properties of a run ------------------------- *)

\* The run has exited and nothing was called since.
Exited == mpc = "exited"

\* The outcome of the run, read from the last value the core returned.
KillSucceeded == call.op = "kill_process" /\ IsOk(result)
PortNotInUse == call.op = "find_process_by_port" /\ result = Ok(None)
HelpAsked == Len(argv) >= 1 /\ argv[1] \in HelpFlags

\* C11 as stated: every run ends with exit code 0 exactly when the
\* termination request succeeded or the port was reported not in use, and
\* with exit code 1 in every other outcome.
C11_ExitZeroOnlyOnSuccess ==
    Exited =>
        /\ exitCode \in {0, 1}
        /\ exitCode = 0 <=> (KillSucceeded \/ PortNotInUse)

\* C11, amended: every run ends with exit code 0 exactly when the
\* termination request succeeded, the port was reported not in use, or help
\* was asked for with -h or --help, and with exit code 1 in every other
\* outcome: missing argument, validation error, table-query failure,
\* name-lookup failure, or termination failure.
C11_ExitCode ==
    /\ exitCode \in {-1, 0, 1}
    /\ exitCode = -1 <=> mpc \notin {"exited", "again"}
    /\ Exited =>
        /\ exitCode = 0 <=> (KillSucceeded \/ PortNotInUse \/ HelpAsked)
        /\ (exitCode = 0 /\ HelpAsked) => calls = << >>
        /\ exitCode = 1 =>
            \/ argv = << >>
            \/ calls = << >> /\ IsErr(validate_port(argv[1]))
            \/ call.op = "find_process_by_port" /\ IsErr(result)
            \/ call.op = "get_process_name" /\ IsErr(result)
            \/ call.op = "kill_process" /\ IsErr(result)

\* C11 witness: a run whose termination request was rejected has exited
\* with code 1.
C11_Witness ==
    /\ Exited
    /\ exitCode = 1
    /\ call.op = "kill_process"
    /\ result.msg = "Failed to terminate process"

Pow10(k) == CASE k = 0 -> 1 [] k = 1 -> 10 [] k = 2 -> 100 [] k = 3 -> 1000
              [] k = 4 -> 10000 [] OTHER -> 100000

\* The number a text of at most five decimal digits denotes, digit by place
\* value; 100000 for a longer text.
RECURSIVE PlaceSum(_, _)
PlaceSum(ds, i) ==
    IF i > Len(ds) THEN 0
    ELSE DigitValue(ds[i]) * Pow10(Len(ds) - i) + PlaceSum(ds, i + 1)

\* Text t is a decimal number (digits, with or without a plus sign before
\* them) and n is the number it denotes.
UnsignedPart(t) == IF t # << >> /\ t[1] = "+" THEN SubSeq(t, 2, Len(t)) ELSE t

IsDecimal(t) ==
    /\ UnsignedPart(t) # << >>
    /\ \A i \in 1..Len(UnsignedPart(t)) : UnsignedPart(t)[i] \in Digits

DecimalValue(t) ==
    IF Len(UnsignedPart(t)) > 5 THEN 100000 ELSE PlaceSum(UnsignedPart(t), 1)

IsPortNumber(t) == IsDecimal(t) /\ DecimalValue(t) >= 1 /\ DecimalValue(t) <= 65535

\* C12: the port argument is accepted exactly when it is a decimal number in
\* 1..65535, and validate_port returns that number; for a missing argument, a
\* non-numeric argument, 0, or a value above 65535 the run exits with code 1
\* and the core is never invoked: no table query, no handle open and no
\* termination request.  (-h and --help are options, not port arguments.)
C12_PortArgument ==
    (mpc # "start" /\ ~HelpAsked) =>
        IF argv # << >> /\ IsPortNumber(argv[1])
        THEN /\ validate_port(argv[1]) = Ok(DecimalValue(argv[1]))
             /\ validPort = DecimalValue(argv[1])
             /\ calls # << >>
             /\ calls[1] = [op |-> "find_process_by_port", arg |-> validPort]
        ELSE /\ argv # << >> => IsErr(validate_port(argv[1]))
             /\ mpc = "exited"
             /\ exitCode = 1
             /\ validPort = 0
             /\ calls = << >>
             /\ call.op = "none"
             /\ syscalls = << >>
             /\ handles = {}
             /\ Len(stdio) = 1 /\ stdio[1].stream = "stderr"

\* C12 witness: the argument "0" was rejected by validate_port and the run
\* exited with code 1 before any call of the core.
C12_Witness ==
    /\ Exited
    /\ argv = << << "0" >> >>
    /\ exitCode = 1
    /\ stdio = << display_error(Err("Port must be between 1 and 65535", 0)) >>
    /\ calls = << >>

\* C13: after a run that resolved the port to its owner, terminated it and
\* exited 0 with the success confirmation, find_process_by_port on the same
\* port returns Ok(None).
C13_PortFreeAfterSuccess ==
    (mpc = "again" /\ Returned("find_process_by_port") /\ IsOk(result)) =>
        result.value = None

IsPrefix(a, b) == Len(a) <= Len(b) /\ a = SubSeq(b, 1, Len(a))

C14_State ==
    /\ mpc # "off" =>
        /\ IsPrefix(calls, << [op |-> "find_process_by_port", arg |-> validPort],
                              [op |-> "get_process_name", arg |-> binding.pid],
                              [op |-> "kill_process", arg |-> binding.pid] >>)
        /\ CallsOf("TerminateProcess") # {} =>
            /\ Len(calls) = 3
            /\ Cardinality(CallsOf("TerminateProcess")) = 1
            /\ \A i \in CallsOf("TerminateProcess") : syscalls[i].h.pid = binding.pid
        /\ Len(calls) = 3 =>
            \E i \in 1..Len(stdio) :
                /\ stdio[i].text = "Found process using port"
                /\ stdio[i].values[1] = binding.pid
        /\ (Exited /\ ~KillSucceeded /\ call.op # "kill_process") => Len(calls) < 3

\* A call of the core is made by main only on these returns of the call
\* before it; a step of the program changes the processes only by the
\* termination request of the run, on the pid of the binding.
C14_Step ==
    /\ (Len(calls') = 2 /\ Len(calls) = 1) =>
        /\ call.op = "find_process_by_port"
        /\ IsOk(result) /\ result.value.some
        /\ binding' = result.value.value
        /\ binding'.port = validPort
    /\ (Len(calls') = 3 /\ Len(calls) = 2) =>
        /\ call = [op |-> "get_process_name", arg |-> binding.pid]
        /\ IsOk(result)
        /\ binding' = binding
    /\ (syscalls' # syscalls /\ << running, dying >>' # << running, dying >>) =>
        /\ mpc = "kill"
        /\ running' = running \ {binding.pid}
        /\ dying' = dying \cup {binding.pid}

\* C14: in every run main issues at most one termination request, and only
\* after find_process_by_port returned Ok(Some(binding)) and
\* get_process_name(binding.pid) returned Ok; the pid terminated is
\* binding.pid, the pid whose name was displayed.  When the resolution
\* returns Ok(None) or Err, or the name lookup fails, no termination request
\* is issued and no process is affected.
C14_OneTerminationOfTheBinding == []C14_State /\ [][C14_Step]_vars

\* C14 witness: the run resolved the port to pid 2 behind a row of another
\* port, displayed it, terminated it and exited 0.
C14_Witness ==
    /\ Exited
    /\ KillSucceeded
    /\ binding = [pid |-> 2, port |-> 1]
    /\ Len(table) = 2
    /\ table[1].dwLocalPort = 1
    /\ 2 \in dying
    /\ 1 \in running
    /\ exitCode = 0

====
